---- MODULE Spec2Model ----
(***************************************************************************)
(* Model of test-coroutines.py: the generator-driven event loop run(), the *)
(* retrying connector / scoped socket async_socket (entered and left with  *)
(* async_enter / async_exit), the HTTP exchange http_request and the two   *)
(* demonstration tasks task1 / task2.                                      *)
(*                                                                         *)
(* Everything runs on one thread.  The loop resumes one coroutine at a     *)
(* time; a resumed coroutine runs until its next yield, its return or its  *)
(* raise.  The socket calls (connect, getsockopt, send, recv, select) are  *)
(* the environment: each call picks one of the outcomes the call can have. *)
(***************************************************************************)
EXTENDS Integers, Sequences, FiniteSets, TLC

\* Number of coroutines handed to run().
NTasks == 2

\* len(request): size of the request buffer http_request builds.
ReqLen == 2

\* async_socket(host, port, retries=3)
retries == 3

Coros == 1..NTasks

\* Python's None, as the value of async_socket's local `sock`.
None == <<0, 0>>

\* The request buffer: ReqLen distinct bytes.
Request == [i \in 1..ReqLen |-> i]

\* The byte streams a server may send; it may close the connection after any
\* part of one.  "s" is the blank-line separator "\r\n\r\n", "b" a byte of
\* the body and "!" a byte that is not UTF-8.
Responses == { <<"s", "b">>, <<"s", "!">> }

IsPrefix(p, s) == Len(p) <= Len(s) /\ \A i \in 1..Len(p) : p[i] = s[i]

RECURSIVE Pow2(_)
Pow2(k) == IF k <= 0 THEN 1 ELSE 2 * Pow2(k - 1)

VARIABLES
    tasks,      \* run: deque of coroutines ready to be resumed
    waiting,    \* run: dict sock -> (coro, mode), in insertion order
    results,    \* run: dict coro -> result, in insertion order
    pc,         \* run: "drain" | "running" | "returned" | "raised"
    coro,       \* run: the coroutine inside next(coro), 0 when none is (run
                \* reads `coro` only from the pop to the store after next)
    readable,   \* run: sockets the select of this pass reported readable
    writable,   \* run: sockets the select of this pass reported writable
                \* (both <<>> once the next pass drains: never read again)
    returned,   \* the list run returned
    catches,    \* per coroutine: a task1/task2 style body (try/except around
                \* http_request) or http_request itself; one run is given
                \* coroutines of one style
    tpc,        \* per coroutine: where its generator stands
    attempt,    \* async_socket: loop variable of the retry loop
    sock,       \* async_socket: the local `sock`
    sent,       \* http_request: bytes of the request handed to send so far
    response,   \* http_request: bytes accumulated from recv
    error,      \* per coroutine: the exception http_request ended with
    socks,      \* every socket handle created so far -> number of close() calls
    wire,       \* per coroutine: the bytes its connection accepted from send
    srvsent,    \* per coroutine: the bytes the server has delivered to recv
    inprogress, \* per coroutine: its connect was still in progress when
                \* SO_ERROR was read at line 58 (known until the first send)
    slept       \* per coroutine: the time.sleep delays, in units of 0.1 s

vars == << tasks, waiting, results, pc, coro, readable, writable, returned,
           catches, tpc, attempt, sock, sent, response, error, socks, wire,
           srvsent, inprogress, slept >>

----------------------------------------------------------------------------
\* The dictionaries of run(), kept as sequences in insertion order.

HasKey(d, k) == \E i \in 1..Len(d) : d[i].key = k

Lookup(d, k) == d[CHOOSE i \in 1..Len(d) : d[i].key = k].val

\* d[k] = v
DictSet(d, k, v) ==
    IF HasKey(d, k)
    THEN [i \in 1..Len(d) |-> IF d[i].key = k THEN [key |-> k, val |-> v] ELSE d[i]]
    ELSE Append(d, [key |-> k, val |-> v])

\* d.pop(k), the dictionary that is left
DictDel(d, k) == SelectSeq(d, LAMBDA e : e.key # k)

\* list(d.values())
Values(d) == [i \in 1..Len(d) |-> d[i].val]

KeySet(d) == {d[i].key : i \in 1..Len(d)}

\* tasks.pop(): the coroutine enqueued last, and the deque that is left.
PopRight(t) == [coro |-> t[Len(t)], tasks |-> SubSeq(t, 1, Len(t) - 1)]

\* tasks.popleft(): the coroutine enqueued first, and the deque that is left.
PopLeft(t) == [coro |-> Head(t), tasks |-> Tail(t)]

\* waiting[sock] = (coro, mode)
WaitingPut(w, s, c, m) == DictSet(w, s, [coro |-> c, mode |-> m])

\* The entry read with waiting[sock] and left in the dictionary.
WaitingPopKeeps(w, s) == w

\* waiting.pop(sock)
WaitingPop(w, s) == DictDel(w, s)

\* The dictionary rebound to the one result: results = {coro: e.value}
StoreResultRebinds(r, c, v) == << [key |-> c, val |-> v] >>

\* The result put in front: results = {coro: e.value, **results}
StoreResultInFront(r, c, v) == << [key |-> c, val |-> v] >> \o r

\* results[coro] = e.value
StoreResult(r, c, v) == DictSet(r, c, v)

\* The filter on the direction left out: [s for s, (c, m) in waiting.items()]
SocksOfAnyMode(w, mode) == [i \in 1..Len(w) |-> w[i].key]

\* [s for s, (c, m) in waiting.items() if m == mode]
SocksOf(w, mode) ==
    LET hit == SelectSeq(w, LAMBDA e : e.val.mode = mode)
    IN  [i \in 1..Len(hit) |-> hit[i].key]

Range(s) == {s[i] : i \in 1..Len(s)}

\* What select.select hands back for one list: the ready ones, in list order.
ReadyOf(list, ready) == SelectSeq(list, LAMBDA s : s \in ready)

\* Every waiting socket woken, whatever select reported.
WakeListAll(rd, wr) == SocksOf(waiting, "r") \o SocksOf(waiting, "w")

\* for sock in readable + writable
WakeList(rd, wr) == rd \o wr

\* The loop at lines 34-36, run over `list`: the (tasks, waiting) it leaves.
RECURSIVE Wake(_, _, _)
Wake(list, t, w) ==
    IF list = <<>> THEN [tasks |-> t, waiting |-> w]
    ELSE LET s == Head(list)
         IN  Wake(Tail(list), Append(t, Lookup(w, s).coro), WaitingPop(w, s))

----------------------------------------------------------------------------
\* Sockets.

\* One handle per attempt number, shared by all coroutines.
NewSockShared(c, a) == <<1, a>>

\* socket.socket(): a new handle, unlike every other one.  The handle made
\* by coroutine c in attempt a is named <<c, a>>.
NewSock(c, a) == <<c, a>>

\* The close forgotten.
CloseSockForgotten(ss, s) == ss

\* sock.close()
CloseSock(ss, s) == [ss EXCEPT ![s] = @ + 1]

IsOpen(s) == s \in DOMAIN socks /\ socks[s] = 0

\* range(retries - 1): one attempt too few.
MoreAttemptsShort(a) == a + 2 < retries

\* for attempt in range(retries): is there an iteration after this one?
MoreAttempts(a) == a + 1 < retries

\* if attempt < retries: a pause after the last attempt as well.
SleepsAfterLast(a) == a < retries

\* if attempt < retries - 1: time.sleep(...)
SleepsAfter(a) == a < retries - 1

\* 0.1 * (2 ** attempt), in units of 0.1 s
Backoff(a) == Pow2(a)

----------------------------------------------------------------------------
\* http_request's pure parts.

\* The whole request again, whatever was sent.
SendSliceFromStart(req, n) == req

\* request[sent:]
SendSlice(req, n) == SubSeq(req, n + 1, Len(req))

\* The chunk put in front of what was received.
AccumulateInFront(resp, chunk) == chunk \o resp

\* response += chunk
Accumulate(resp, chunk) == resp \o chunk

\* response.decode('utf-8', errors='ignore'): bytes that are no UTF-8 are
\* dropped ("!" stands for such a byte).
Decode(bytes) == SelectSeq(bytes, LAMBDA b : b # "!")

\* Index of the first "\r\n\r\n" in s, 0 if there is none.
FindSep(s) ==
    LET hits == {i \in 1..Len(s) : s[i] = "s"}
    IN  IF hits = {} THEN 0 ELSE CHOOSE i \in hits : \A j \in hits : i <= j

\* s.split('\r\n\r\n', 1): one or two parts
Split1(s) ==
    IF FindSep(s) = 0 THEN << s >>
    ELSE << SubSeq(s, 1, FindSep(s) - 1), SubSeq(s, FindSep(s) + 1, Len(s)) >>

\* The value task1 / task2 return.
TaskDone(c) == << "Task done", c >>

\* A task body without the handler.
CaughtNever(c) == FALSE

\* task1 / task2, lines 155-160: `except Exception` around http_request.
Caught(c) == catches[c]

----------------------------------------------------------------------------
Init ==
    /\ tasks = [i \in 1..NTasks |-> i]
    /\ waiting = <<>>
    /\ results = <<>>
    /\ pc = "drain"
    /\ coro = 0
    /\ readable = <<>>
    /\ writable = <<>>
    /\ returned = <<>>
    /\ catches \in {[c \in Coros |-> b] : b \in BOOLEAN}
    /\ tpc = [c \in Coros |-> "new"]
    /\ attempt = [c \in Coros |-> 0]
    /\ sock = [c \in Coros |-> None]
    /\ sent = [c \in Coros |-> 0]
    /\ response = [c \in Coros |-> <<>>]
    /\ error = [c \in Coros |-> "none"]
    /\ socks = << >>
    /\ wire = [c \in Coros |-> <<>>]
    /\ srvsent = [c \in Coros |-> <<>>]
    /\ inprogress = [c \in Coros |-> FALSE]
    /\ slept = [c \in Coros |-> <<>>]

----------------------------------------------------------------------------
\* How a step of the running coroutine c ends, seen from run().

\* c goes on running (no yield reached yet).
GoOn(c, at) ==
    /\ tpc' = [tpc EXCEPT ![c] = at]
    /\ UNCHANGED << waiting, results, pc, coro, error >>

\* c yields (s, m): next(coro) returns it, run stores the waiting entry.
Yield(c, s, m, at) ==
    /\ tpc' = [tpc EXCEPT ![c] = at]
    /\ waiting' = WaitingPut(waiting, s, c, m)
    /\ pc' = "drain"
    /\ coro' = 0
    /\ UNCHANGED << results, error >>

\* What run() does with an exception other than StopIteration leaving
\* next(coro): it has no handler for it, the exception leaves run().
Escapes(c) == "raised"

\* http_request returns body.  task1 / task2 return their own value after it.
Return(c, body) ==
    /\ tpc' = [tpc EXCEPT ![c] = "done"]
    /\ results' = StoreResult(results, c, IF catches[c] THEN TaskDone(c) ELSE body)
    /\ pc' = "drain"
    /\ coro' = 0
    /\ UNCHANGED << waiting, error >>

\* http_request raises e.  task1 / task2 catch it, print it and return;
\* raised by http_request run as a task of its own, it leaves next(coro).
Raise(c, e) ==
    /\ error' = [error EXCEPT ![c] = e]
    /\ IF Caught(c)
       THEN /\ tpc' = [tpc EXCEPT ![c] = "done"]
            /\ results' = StoreResult(results, c, TaskDone(c))
            /\ pc' = "drain"
       ELSE /\ tpc' = [tpc EXCEPT ![c] = "failed"]
            /\ results' = results
            /\ pc' = Escapes(c)
    /\ coro' = 0
    /\ UNCHANGED waiting

\* The generators of c are finished: their frames, and the locals in them,
\* no longer exist.
Drop(c) ==
    /\ attempt' = [attempt EXCEPT ![c] = 0]
    /\ sock' = [sock EXCEPT ![c] = None]
    /\ sent' = [sent EXCEPT ![c] = 0]
    /\ response' = [response EXCEPT ![c] = <<>>]

\* async_socket, line 47 and lines 72-73, reached with sock None: the for
\* statement takes the next value of range(retries); when there is none the
\* loop is over and async_socket raises.
ForNext(c) ==
    IF MoreAttempts(attempt[c])
    THEN /\ attempt' = [attempt EXCEPT ![c] = @ + 1]
         /\ sock' = [sock EXCEPT ![c] = None]
         /\ GoOn(c, "attempt")
         /\ UNCHANGED << sent, response >>
    ELSE /\ Raise(c, "ConnectionFailed")
         /\ Drop(c)

\* The except clause without its sock.close().
FailedLeavesOpen(c, s, ss) ==
    /\ socks' = ss
    /\ IF SleepsAfter(attempt[c])
       THEN /\ sock' = [sock EXCEPT ![c] = None]
            /\ GoOn(c, "sleep")
            /\ UNCHANGED << attempt, sent, response >>
       ELSE ForNext(c)

\* The except clause of async_socket, lines 64-70.  s is the handle of the
\* attempt, ss the handles that exist.
Failed(c, s, ss) ==
    /\ socks' = CloseSock(ss, s)
    /\ IF SleepsAfter(attempt[c])
       THEN /\ sock' = [sock EXCEPT ![c] = None]
            /\ GoOn(c, "sleep")
            /\ UNCHANGED << attempt, sent, response >>
       ELSE ForNext(c)

\* async_exit(ctx) in http_request's finally: ctx.close() raises
\* GeneratorExit at `yield sock`, whose finally closes the socket.  The
\* connection and what was in flight on it are gone with it.
Exit(c) ==
    /\ socks' = CloseSock(socks, sock[c])
    /\ wire' = [wire EXCEPT ![c] = <<>>]
    /\ srvsent' = [srvsent EXCEPT ![c] = <<>>]

----------------------------------------------------------------------------
\* A generator resumed after the yield in the send loop goes on in the
\* receive loop.
ResumeAtRecv(at) ==
    CASE at = "new"   -> "attempt"
      [] at = "conn"  -> "geterr"
      [] at = "sendw" -> "recv"
      [] at = "recvw" -> "recv"
      [] OTHER        -> at

\* Where next(coro) takes up a generator that stands at `at`: a new one at
\* its first line, a suspended one behind its yield (lines 56, 130, 135).
ResumeAt(at) ==
    CASE at = "new"   -> "attempt"
      [] at = "conn"  -> "geterr"
      [] at = "sendw" -> "send"
      [] at = "recvw" -> "recv"
      [] OTHER        -> at

\* run(), lines 19-25: pop the next coroutine and resume it.
Resume ==
    /\ pc = "drain"
    /\ tasks # <<>>
    /\ LET c == PopLeft(tasks).coro IN
        /\ tasks' = PopLeft(tasks).tasks
        /\ IF tpc[c] \in {"done", "failed"}
           THEN \* next() of a finished generator: StopIteration, value None
                /\ results' = StoreResult(results, c, << "None" >>)
                /\ UNCHANGED << pc, coro, tpc >>
           ELSE /\ pc' = "running"
                /\ coro' = c
                /\ tpc' = [tpc EXCEPT ![c] = ResumeAt(tpc[c])]
                /\ UNCHANGED results
    /\ readable' = <<>>
    /\ writable' = <<>>
    /\ UNCHANGED << waiting, returned, catches, attempt, sock, sent, response,
                    error, socks, wire, srvsent, inprogress, slept >>

\* async_socket, lines 47-56: one connection attempt up to its yield.
Attempt ==
    /\ pc = "running"
    /\ tpc[coro] = "attempt"
    /\ LET c  == coro
           s  == NewSock(c, attempt[c])
           ss == (s :> 0) @@ socks
       IN  \E outcome \in {"pending", "error"} :
             IF outcome = "pending"
             THEN \* connect raised BlockingIOError, or connected at once
                  /\ socks' = ss
                  /\ sock' = [sock EXCEPT ![c] = s]
                  /\ Yield(c, s, "w", "conn")
                  /\ UNCHANGED << attempt, sent, response >>
             ELSE \* connect raised another exception
                  Failed(c, s, ss)
    /\ UNCHANGED << tasks, readable, writable, returned, catches, wire, srvsent,
                    inprogress, slept >>

\* async_socket, lines 58-62 and 72-76, async_enter, lines 83-85, and
\* http_request, lines 107-124: the wait for the connection is over.
\* SO_ERROR is the pending error of the socket: non-zero when the connection
\* failed, 0 when it is established and 0 as well while it is still in
\* progress (the wake-up was spurious).  What send does then is what it may
\* do on any socket: accept bytes once the connection stands, report that it
\* would block, or fail.
GetErr ==
    /\ pc = "running"
    /\ tpc[coro] = "geterr"
    /\ LET c == coro IN
       \E err \in {0, 1} : \E connected \in BOOLEAN :
             IF err = 0
             THEN \* break; yield sock; async_enter returns it; sent = 0
                  /\ sent' = [sent EXCEPT ![c] = 0]
                  /\ inprogress' = [inprogress EXCEPT ![c] = ~connected]
                  /\ GoOn(c, "send")
                  /\ UNCHANGED << socks, sock, attempt, response >>
             ELSE /\ ~connected
                  /\ Failed(c, sock[c], socks)
                  /\ UNCHANGED inprogress
    /\ UNCHANGED << tasks, readable, writable, returned, catches, wire, srvsent,
                    slept >>

\* async_socket, line 70: the backoff pause, then the next loop iteration.
Sleep ==
    /\ pc = "running"
    /\ tpc[coro] = "sleep"
    /\ slept' = [slept EXCEPT ![coro] = Append(@, Backoff(attempt[coro]))]
    /\ ForNext(coro)
    /\ UNCHANGED << tasks, readable, writable, returned, catches, socks, wire,
                    srvsent, inprogress >>

\* http_request, lines 125-130: one pass of the send loop.
Send ==
    /\ pc = "running"
    /\ tpc[coro] = "send"
    /\ sent[coro] < Len(Request)
    /\ LET c == coro
           buf == SendSlice(Request, sent[c])
       IN  \/ \E n \in 1..Len(buf) :        \* send accepted n bytes
                /\ wire' = [wire EXCEPT ![c] = @ \o SubSeq(buf, 1, n)]
                /\ sent' = [sent EXCEPT ![c] = @ + n]
                /\ GoOn(c, "send")
                /\ UNCHANGED << socks, srvsent, attempt, sock, response >>
           \/ /\ Yield(c, sock[c], "w", "sendw")   \* BlockingIOError
              /\ UNCHANGED << wire, socks, srvsent, attempt, sock, sent, response >>
           \/ /\ Exit(c)                           \* any other OSError
              /\ Raise(c, "OSError")
              /\ Drop(c)
    /\ inprogress' = [inprogress EXCEPT ![coro] = FALSE]
    /\ UNCHANGED << tasks, readable, writable, returned, catches, slept >>

\* http_request, lines 133-135: the request is out, wait for the response.
StartRecv ==
    /\ pc = "running"
    /\ tpc[coro] = "send"
    /\ sent[coro] >= Len(Request)
    /\ response' = [response EXCEPT ![coro] = <<>>]
    /\ Yield(coro, sock[coro], "r", "recvw")
    /\ UNCHANGED << tasks, readable, writable, returned, catches, attempt,
                    sock, sent, socks, wire, srvsent, inprogress, slept >>

\* http_request, lines 137-148: one recv.
Recv ==
    /\ pc = "running"
    /\ tpc[coro] = "recv"
    /\ LET c == coro IN
       \/ \E r \in Responses : \E k \in 1..Len(r) :   \* a chunk of k bytes
             /\ IsPrefix(srvsent[c], r)
             /\ Len(srvsent[c]) + k <= Len(r)
             /\ LET chunk == SubSeq(r, Len(srvsent[c]) + 1, Len(srvsent[c]) + k)
                IN  /\ srvsent' = [srvsent EXCEPT ![c] = @ \o chunk]
                    /\ response' = [response EXCEPT ![c] = Accumulate(@, chunk)]
             /\ GoOn(c, "recv")
             /\ UNCHANGED << socks, wire, attempt, sock, sent >>
       \/ /\ Yield(c, sock[c], "r", "recvw")          \* BlockingIOError
          /\ UNCHANGED << srvsent, response, socks, wire, attempt, sock, sent >>
       \/ \* b"": the peer closed
          /\ LET parts == Split1(Decode(response[c]))
             IN  IF Len(parts) >= 2
                 THEN Return(c, parts[2])
                 ELSE Raise(c, "IndexError")
          /\ Exit(c)
          /\ Drop(c)
       \/ /\ Exit(c)                                   \* any other OSError
          /\ Raise(c, "OSError")
          /\ Drop(c)
    /\ UNCHANGED << tasks, readable, writable, returned, catches, inprogress,
                    slept >>

\* run(), lines 28-36: the readiness wait and the wake-ups.
Select ==
    /\ pc = "drain"
    /\ tasks = <<>>
    /\ waiting # <<>>
    /\ LET readers == SocksOf(waiting, "r")
           writers == SocksOf(waiting, "w")
       IN  IF \E s \in KeySet(waiting) : ~IsOpen(s)
           THEN \* select raises on a closed socket; run has no handler
                /\ pc' = "raised"
                /\ UNCHANGED << tasks, waiting, readable, writable >>
           ELSE \E ready \in (SUBSET KeySet(waiting)) \ {{}} :
                  LET rd == ReadyOf(readers, ready)
                      wr == ReadyOf(writers, ready)
                      w  == Wake(WakeList(rd, wr), tasks, waiting)
                  IN  /\ readable' = rd
                      /\ writable' = wr
                      /\ tasks' = w.tasks
                      /\ waiting' = w.waiting
                      /\ UNCHANGED pc
    /\ UNCHANGED << results, coro, returned, catches, tpc, attempt, sock, sent,
                    response, error, socks, wire, srvsent, inprogress, slept >>

\* run(), lines 17 and 38: nothing pending, nothing waiting.
RunReturns ==
    /\ pc = "drain"
    /\ tasks = <<>>
    /\ waiting = <<>>
    /\ pc' = "returned"
    /\ returned' = Values(results)
    /\ UNCHANGED << tasks, waiting, results, coro, readable, writable, catches,
                    tpc, attempt, sock, sent, response, error, socks, wire,
                    srvsent, inprogress, slept >>

\* The generator c, suspended at a yield or never started, is closed: run()
\* is gone with an exception, nothing refers to c any more and its finalizer
\* calls c.close(), which raises GeneratorExit at the yield.  At line 130 or
\* 135 the finally of http_request runs async_exit.  At line 56 the
\* GeneratorExit passes through async_enter (line 86) and leaves http_request
\* at line 107, before its try; ctx is then closed in turn at line 56, where
\* `except Exception` does not catch GeneratorExit and no finally surrounds it.
Close ==
    /\ pc = "raised"
    /\ \E c \in Coros :
          /\ tpc[c] \in {"new", "conn", "sendw", "recvw"}
          /\ tpc' = [tpc EXCEPT ![c] = "closed"]
          /\ IF tpc[c] \in {"sendw", "recvw"}
             THEN Exit(c)
             ELSE UNCHANGED << socks, wire, srvsent >>
          /\ Drop(c)
          /\ tasks' = SelectSeq(tasks, LAMBDA t : t # c)
          /\ waiting' = SelectSeq(waiting, LAMBDA e : e.val.coro # c)
    /\ UNCHANGED << results, pc, coro, readable, writable, returned, catches,
                    error, inprogress, slept >>

Next ==
    \/ Resume
    \/ Attempt
    \/ GetErr
    \/ Sleep
    \/ Send
    \/ StartRecv
    \/ Recv
    \/ Select
    \/ RunReturns
    \/ Close

Spec == Init /\ [][Next]_vars

----------------------------------------------------------------------------
\* Derived state the properties below speak of.

\* Number of times c stands in the pending queue.
Pending(c) == Cardinality({i \in 1..Len(tasks) : tasks[i] = c})

\* Number of waiting entries that name c.
Waits(c) == Cardinality({i \in 1..Len(waiting) : waiting[i].val.coro = c})

\* c's generator is finished (returned or raised).
Finished(c) == tpc[c] \in {"done", "failed"}

\* c stands at a yield of a (socket, direction) pair.
AtYield(c) == tpc[c] \in {"conn", "sendw", "recvw"}

\* c holds the socket async_socket handed over.
Connected(c) == tpc[c] \in {"send", "sendw", "recv", "recvw"}

\* The handles c's async_socket created.
HandlesOf(c) == {h \in DOMAIN socks : h[1] = c}

\* The handles of c on which close() has not been called.
OpenHandlesOf(c) == {h \in HandlesOf(c) : socks[h] = 0}

\* The dictionary w has the entry s -> (c, m).
HasEntry(w, s, c, m) ==
    \E i \in 1..Len(w) : w[i] = [key |-> s, val |-> [coro |-> c, mode |-> m]]

----------------------------------------------------------------------------
\* C1: when run returns, the returned list has exactly one entry per
\* submitted coroutine: NTasks entries, the results dictionary has every
\* coroutine as a key once, and the list is its values in order.
C1_OneResultPerTask ==
    pc = "returned" =>
        /\ Len(returned) = NTasks
        /\ Len(results) = NTasks
        /\ KeySet(results) = Coros
        /\ returned = Values(results)
        /\ \A c \in Coros : catches[c] =>
              Cardinality({i \in 1..Len(returned) : returned[i] = TaskDone(c)}) = 1

C1_Witness ==
    /\ pc = "returned"
    /\ Len(returned) = NTasks
    /\ \E c \in Coros : error[c] # "none"

\* C2: run is over only when nothing is pending and nothing is waiting, with
\* every submitted coroutine finished and its result recorded.
C2_ExitsOnlyWhenAllFinished ==
    pc \in {"returned", "raised"} =>
        /\ tasks = <<>>
        /\ waiting = <<>>
        /\ \A c \in Coros : Finished(c) /\ HasKey(results, c)

\* C3: a socket handle is never closed twice; a handle that is no longer the
\* one its coroutine works with (a failed attempt's) has been closed once; and
\* once the coroutine has finished, by returning or by raising, every handle
\* it created has been closed exactly once.  (A coroutine closed from outside
\* while suspended is C12's case.)
C3_ClosedExactlyOnce ==
    \A h \in DOMAIN socks :
        /\ socks[h] <= 1
        /\ (tpc[h[1]] # "closed" /\ (h # sock[h[1]] \/ Finished(h[1]))) =>
              socks[h] = 1

\* One coroutine ended normally, another after a failed attempt and then an
\* error of the consumer, a third path being the failed attempt itself.
C3_Witness ==
    \E c, d \in Coros :
        /\ tpc[c] = "done" /\ error[c] = "none"
        /\ tpc[d] = "done" /\ error[d] \in {"OSError", "IndexError"}
        /\ Cardinality(HandlesOf(d)) >= 2
        /\ \A h \in HandlesOf(c) \cup HandlesOf(d) : socks[h] = 1

\* C4: a coroutine that finished with an error has that error recorded as
\* its result, and the error has not left run.
C4_TaskErrorIsRecorded ==
    \A c \in Coros : tpc[c] = "failed" => HasKey(results, c) /\ pc # "raised"

C6_ExactlyRetriesAttempts ==
    /\ [](\A c \in Coros :
            /\ Cardinality(HandlesOf(c)) <= retries
            /\ error[c] = "ConnectionFailed" =>
                  /\ HandlesOf(c) = {NewSock(c, a) : a \in 0..(retries - 1)}
                  /\ \A h \in HandlesOf(c) : socks[h] = 1
            /\ (AtYield(c) \/ Connected(c) \/ tpc[c] = "geterr") =>
                  HandlesOf(c) = {NewSock(c, a) : a \in 0..attempt[c]})
    /\ [][\A c \in Coros : Connected(c) =>
            /\ HandlesOf(c)' = HandlesOf(c)
            /\ error'[c] # "ConnectionFailed"]_vars

C6_Witness ==
    \E c, d \in Coros :
        /\ error[c] = "ConnectionFailed"
        /\ Cardinality(HandlesOf(c)) = retries
        /\ Connected(d) /\ attempt[d] = 1

\* C7: a coroutine goes from the waiting set to the pending queue only in a
\* step in which select reported the socket of its waiting entry ready in
\* the direction of that entry.
C7_WokenOnlyByOwnSocket ==
    [][\A c \in Coros : \A i \in 1..Len(waiting) :
          (waiting[i].val.coro = c /\ Pending(c)' > Pending(c)) =>
              \/ waiting[i].val.mode = "r" /\ waiting[i].key \in Range(readable')
              \/ waiting[i].val.mode = "w" /\ waiting[i].key \in Range(writable')]_vars

\* Right after a select that reported only a writer: the writer's coroutine
\* is pending, a coroutine waiting to read is still waiting.
C7_Witness ==
    /\ readable = <<>>
    /\ writable # <<>>
    /\ \E i \in 1..Len(waiting) : waiting[i].val.mode = "r"
    /\ \E c \in Coros : Pending(c) = 1 /\ tpc[c] \in {"conn", "sendw"}

\* C8: a coroutine is in at most one of the pending queue (and there at
\* most once), the waiting set, the result set and next(coro).
C8_OnePlacePerTask ==
    \A c \in Coros :
        Pending(c) + Waits(c) + (IF HasKey(results, c) THEN 1 ELSE 0)
            + (IF coro = c THEN 1 ELSE 0) <= 1

C8_Witness ==
    \E c, d \in Coros : Pending(c) = 1 /\ Waits(d) = 1 /\ AtYield(c)

\* C9: every waiting entry belongs to another coroutine, is keyed by the
\* socket that coroutine yielded, and there are as many entries as
\* coroutines that yielded and have not been woken.
C9_OneWaiterPerSocket ==
    /\ \A i, j \in 1..Len(waiting) :
          (waiting[i].key = waiting[j].key \/ waiting[i].val.coro = waiting[j].val.coro)
              => i = j
    /\ \A i \in 1..Len(waiting) :
          /\ AtYield(waiting[i].val.coro)
          /\ waiting[i].key = sock[waiting[i].val.coro]
    /\ Len(waiting) = Cardinality({c \in Coros : AtYield(c) /\ Pending(c) = 0})

C9_Witness ==
    /\ Len(waiting) = NTasks
    /\ \E i, j \in 1..Len(waiting) : waiting[i].val.mode # waiting[j].val.mode

\* C10: the bytes the connection accepted are always the first sent[c] bytes
\* of the request, and at every read-wait and recv they are the whole
\* request, each byte once and in order.
C10_RequestDrainedBeforeRead ==
    \A c \in Coros :
        /\ Connected(c) =>
              /\ sent[c] <= Len(Request)
              /\ wire[c] = SubSeq(Request, 1, sent[c])
        /\ tpc[c] \in {"recv", "recvw"} => wire[c] = Request /\ Len(wire[c]) = ReqLen

\* One coroutine at its first read-wait with the request out, while another
\* is blocked in the middle of its request.
C10_Witness ==
    \E c, d \in Coros :
        /\ tpc[c] = "recvw" /\ srvsent[c] = <<>> /\ wire[c] = Request
        /\ tpc[d] = "sendw" /\ sent[d] > 0 /\ sent[d] < Len(Request)

\* C11: a coroutine resumed while its operation would still block suspends
\* again on the same socket in the same direction with its progress as it
\* was, and without an error: in the send loop (nothing sent, nothing put on
\* the wire), in the receive loop (nothing accumulated), and in the wait for
\* the connection (still the same attempt on the same open socket, which is
\* not taken for a connected one).
C11_SpuriousWakeTolerated ==
    [][\A c \in Coros :
          /\ (tpc[c] = "send" /\ tpc'[c] = "sendw") =>
                /\ HasEntry(waiting', sock[c], c, "w")
                /\ sock'[c] = sock[c] /\ IsOpen(sock[c])'
                /\ sent'[c] = sent[c] /\ wire'[c] = wire[c]
                /\ error'[c] = "none"
          /\ (tpc[c] = "recv" /\ tpc'[c] = "recvw") =>
                /\ HasEntry(waiting', sock[c], c, "r")
                /\ sock'[c] = sock[c] /\ IsOpen(sock[c])'
                /\ response'[c] = response[c] /\ srvsent'[c] = srvsent[c]
                /\ error'[c] = "none"
          /\ (tpc[c] = "geterr" /\ sock'[c] = sock[c] /\ inprogress'[c]) =>
                /\ tpc'[c] = "conn"
                /\ HasEntry(waiting', sock[c], c, "w")
                /\ attempt'[c] = attempt[c]
                /\ error'[c] = "none"]_vars

\* C12: a coroutine closed while suspended, at whichever yield, has had the
\* release step run: every handle it created has been closed, the one that
\* was open at that moment included.
C12_EarlyExitReleases ==
    \A c \in Coros : tpc[c] = "closed" => \A h \in HandlesOf(c) : socks[h] = 1

\* C13: an open handle is the newest its async_socket created, so of the
\* handles of one async_socket at most one is open and every handle of an
\* earlier attempt is closed once a later one exists; no waiting entry names
\* an earlier one; between two attempts (in the except clause, in the pause,
\* before the next socket.socket()) none is open; and when the
\* connection-failed error is raised none is open.
C13_AtMostOneOpenHandle ==
    /\ \A h \in DOMAIN socks :
          socks[h] = 0 =>
              /\ \A g \in DOMAIN socks : g[1] = h[1] => g[2] <= h[2]
              /\ tpc[h[1]] \notin {"attempt", "sleep"}
              /\ error[h[1]] # "ConnectionFailed"
    /\ \A i \in 1..Len(waiting) :
          /\ IsOpen(waiting[i].key)
          /\ waiting[i].key = NewSock(waiting[i].val.coro,
                                      attempt[waiting[i].val.coro])

\* One coroutine waits on the handle of its third attempt, the two earlier
\* handles closed, while another has failed for good.
C13_Witness ==
    \E c, d \in Coros :
        /\ tpc[c] = "conn" /\ attempt[c] = retries - 1
        /\ Cardinality(HandlesOf(c)) = retries
        /\ OpenHandlesOf(c) = {sock[c]}
        /\ error[d] = "ConnectionFailed"
        /\ Cardinality(HandlesOf(d)) = retries /\ OpenHandlesOf(d) = {}

\* C14: the result of a coroutine is stored in the step in which it finishes,
\* behind the results of all that finished before; no other step changes
\* the result set; and the list run returns is the values in that order.  So
\* the returned list is in order of completion, whatever the order of
\* submission.
C14_ResultsInCompletionOrder ==
    /\ [](pc = "returned" => returned = Values(results))
    /\ [][/\ \A c \in Coros :
              (tpc[c] # "done" /\ tpc'[c] = "done") =>
                  /\ ~HasKey(results, c)
                  /\ Len(results') = Len(results) + 1
                  /\ SubSeq(results', 1, Len(results)) = results
                  /\ results'[Len(results')].key = c
          /\ results' # results =>
                  \E c \in Coros : tpc[c] # "done" /\ tpc'[c] = "done"]_vars

\* run has returned a list in which the coroutine submitted last comes
\* first.
C14_Witness ==
    /\ pc = "returned"
    /\ Len(returned) = NTasks
    /\ results[1].key = NTasks
    /\ results[Len(results)].key = 1

\* C15: while a coroutine receives, what it has accumulated is what the
\* server has sent, byte for byte and in order; it returns only from the
\* receive loop; and when recv returns no bytes after a response with a
\* blank-line separator it returns, without an error, the bytes the server
\* sent after the first separator.
C15_BodyIsReturned ==
    /\ [](\A c \in Coros :
            tpc[c] \in {"recv", "recvw"} => response[c] = srvsent[c])
    /\ [][\A c \in Coros :
            /\ (tpc[c] # "done" /\ tpc'[c] = "done" /\ error'[c] = "none") =>
                  tpc[c] = "recv"
            /\ (tpc[c] = "recv" /\ tpc'[c] \in {"done", "failed"}
                                /\ error'[c] # "OSError"
                                /\ FindSep(srvsent[c]) # 0) =>
                  /\ error'[c] = "none"
                  /\ ~catches[c] =>
                        Lookup(results', c) =
                            SubSeq(srvsent[c], FindSep(srvsent[c]) + 1,
                                   Len(srvsent[c]))]_vars

\* C15 as amended: accumulation as above; when recv returns no bytes the
\* coroutine returns the part after the first blank-line separator of what
\* the server sent decoded as UTF-8 with the undecodable bytes dropped (the
\* body itself when all of it is UTF-8), and raises IndexError when the
\* decoded text holds no separator.
C15_DecodedBodyIsReturned ==
    /\ [](\A c \in Coros :
            tpc[c] \in {"recv", "recvw"} => response[c] = srvsent[c])
    /\ [][\A c \in Coros :
            /\ (tpc[c] # "done" /\ tpc'[c] = "done" /\ error'[c] = "none") =>
                  tpc[c] = "recv"
            /\ (tpc[c] = "recv" /\ tpc'[c] \in {"done", "failed"}
                                /\ error'[c] # "OSError") =>
                  LET text == Decode(srvsent[c])
                  IN  IF FindSep(text) = 0
                      THEN error'[c] = "IndexError"
                      ELSE /\ error'[c] = "none"
                           /\ ~catches[c] =>
                                 Lookup(results', c) =
                                     SubSeq(text, FindSep(text) + 1, Len(text))
                           /\ (\A i \in 1..Len(srvsent[c]) : srvsent[c][i] # "!") =>
                                 text = srvsent[c]]_vars

\* One coroutine has returned the body "b"; another has accumulated a
\* separator and an undecodable byte and waits for more.
C15_Witness ==
    \E c, d \in Coros :
        /\ ~catches[c] /\ tpc[c] = "done"
        /\ Lookup(results, c) = << "b" >>
        /\ tpc[d] = "recvw" /\ response[d] = << "s", "!" >>

\* C16: where select is about to be called (nothing pending, something
\* waiting) the two lists handed to it have no socket in common, hold each
\* waiting socket once, in the list of its recorded direction, and nothing
\* else.  Right after a select the pending queue holds the woken coroutines
\* and no others (it was empty when select was called, and select is not
\* called again before it is drained), one per socket reported, each socket
\* reported once and its waiting entry removed.
C16_OneSelectOverPartition ==
    /\ (pc = "drain" /\ tasks = <<>> /\ waiting # <<>>) =>
          LET readers == SocksOf(waiting, "r")
              writers == SocksOf(waiting, "w")
          IN  /\ Range(readers) \cap Range(writers) = {}
              /\ Range(readers) \cup Range(writers) = KeySet(waiting)
              /\ Len(readers) + Len(writers) = Len(waiting)
              /\ \A s \in Range(readers) : Lookup(waiting, s).mode = "r"
              /\ \A s \in Range(writers) : Lookup(waiting, s).mode = "w"
    /\ (readable # <<>> \/ writable # <<>>) =>
         LET woken == readable \o writable
         IN  /\ pc = "drain"
             /\ Len(tasks) = Len(woken)
             /\ Cardinality(Range(woken)) = Len(woken)
             /\ \A i \in 1..Len(woken) :
                   /\ sock[tasks[i]] = woken[i]
                   /\ woken[i] \notin KeySet(waiting)
                   /\ tpc[tasks[i]] \in (IF i <= Len(readable)
                                         THEN {"recvw"} ELSE {"conn", "sendw"})

\* Right after a select that reported a reader and a writer.
C16_Witness ==
    /\ readable # <<>> /\ writable # <<>>
    /\ Len(tasks) = Len(readable) + Len(writable)
    /\ pc = "drain"

\* C17: the pauses of one async_socket are 1, 2, 4, ... units of 0.1 s, the
\* k-th failed attempt (from 0) followed by 2^k, each longer than the one
\* before; there is one per failed attempt but the last, so a coroutine at
\* attempt k has paused k times and one that failed for good retries - 1
\* times; and a coroutine is in its pause only inside next(coro): run is
\* neither draining the queue nor in select.
C17_BackoffBlocksLoop ==
    \A c \in Coros :
        /\ \A k \in 1..Len(slept[c]) :
              /\ slept[c][k] = Pow2(k - 1)
              /\ k > 1 => slept[c][k] > slept[c][k - 1]
        /\ Len(slept[c]) <= retries - 1
        /\ tpc[c] \in {"attempt", "conn", "geterr"} => Len(slept[c]) = attempt[c]
        /\ error[c] = "ConnectionFailed" => Len(slept[c]) = retries - 1
        /\ tpc[c] = "sleep" =>
              /\ pc = "running" /\ coro = c
              /\ Len(slept[c]) = attempt[c]
              /\ attempt[c] < retries - 1
              /\ OpenHandlesOf(c) = {}

\* A coroutine in its second pause while another waits for its response.
C17_Witness ==
    \E c, d \in Coros :
        /\ tpc[c] = "sleep" /\ attempt[c] = 1 /\ slept[c] = << 1 >>
        /\ tpc[d] = "recvw" /\ Waits(d) = 1

\* C18: no coroutine stands in the pending queue twice; while run is going
\* the queue changes in two ways only: the coroutine at its head is taken
\* off and resumed, the rest keeping their order, or, at a select, woken
\* coroutines are put behind those it holds.  So within one pass the
\* coroutines are resumed in the order they were enqueued, each once.
C18_FifoDrain ==
    /\ [](\A c \in Coros : Pending(c) <= 1)
    /\ [][\/ pc = "raised"
          \/ tasks' = tasks
          \/ /\ tasks # <<>>
             /\ pc = "drain" /\ pc' = "running"
             /\ coro' = Head(tasks)
             /\ tasks' = Tail(tasks)
          \/ /\ pc = "drain" /\ pc' = "drain"
             /\ Len(tasks') > Len(tasks)
             /\ IsPrefix(tasks, tasks')
             /\ \A i \in (Len(tasks) + 1)..Len(tasks') :
                   /\ Waits(tasks'[i]) = 1
                   /\ sock[tasks'[i]] = (readable' \o writable')[i - Len(tasks)]]_vars

\* In a pass after a select the coroutine submitted last is being resumed
\* while the one submitted first is still pending behind it.
C18_Witness ==
    /\ pc = "running"
    /\ coro = NTasks
    /\ tasks # <<>>
    /\ tasks[Len(tasks)] = 1

\* C19: every socket in the waiting set is open (created and never closed):
\* no coroutine has yielded a handle it had closed, none has closed a handle
\* that has a waiting entry; and run has not been ended by select, only
\* ever by a coroutine's error.
C19_NoClosedSocketWaits ==
    /\ \A i \in 1..Len(waiting) :
          /\ waiting[i].key \in DOMAIN socks
          /\ socks[waiting[i].key] = 0
    /\ pc = "raised" => \E c \in Coros : tpc[c] = "failed"

\* A coroutine waits on the open handle of its second attempt, the handle
\* of its first closed, while another has finished and closed its own.
C19_Witness ==
    \E i \in 1..Len(waiting) : \E d \in Coros :
        /\ waiting[i].key[2] = 1
        /\ socks[waiting[i].key] = 0
        /\ socks[NewSock(waiting[i].key[1], 0)] = 1
        /\ tpc[d] = "done"
        /\ \A h \in HandlesOf(d) : socks[h] = 1

\* C20: the requests of one coroutine.  Every socket it creates it yields for
\* writing in the same step (one write-wait per attempt); a wait for the
\* connection names a socket created in that step, for writing; a wait in
\* the send loop names the connected socket, for writing; a wait in the
\* receive loop names that same socket, for reading; there are no other
\* requests.  The coroutine never goes back from sending to connecting nor
\* from receiving to sending, it receives only after a read-wait, keeps its
\* socket from the hand-over on, and once finished it requests nothing.
C20_RequestShape ==
    [][\A c \in Coros :
          /\ HandlesOf(c)' # HandlesOf(c) =>
                \E h \in HandlesOf(c)' \ HandlesOf(c) :
                    tpc'[c] = "conn" /\ HasEntry(waiting', h, c, "w")
          /\ (Waits(c) = 0 /\ Waits(c)' = 1) =>
                \/ /\ tpc'[c] = "conn"
                   /\ sock'[c] \notin DOMAIN socks
                   /\ HasEntry(waiting', sock'[c], c, "w")
                \/ /\ tpc[c] = "send" /\ tpc'[c] = "sendw"
                   /\ HasEntry(waiting', sock[c], c, "w")
                \/ /\ tpc[c] \in {"send", "recv"} /\ tpc'[c] = "recvw"
                   /\ HasEntry(waiting', sock[c], c, "r")
          /\ tpc[c] \in {"send", "sendw"} =>
                tpc'[c] \in {"send", "sendw", "recvw", "done", "failed", "closed"}
          /\ tpc[c] \in {"recv", "recvw"} =>
                tpc'[c] \in {"recv", "recvw", "done", "failed", "closed"}
          /\ tpc'[c] = "recv" => tpc[c] \in {"recv", "recvw"}
          /\ (Connected(c) /\ Connected(c)') => sock'[c] = sock[c]
          /\ Finished(c) => (tpc'[c] = tpc[c] /\ Waits(c)' = 0)]_vars

\* C20 as amended: as above, but an attempt yields at most one write-wait,
\* none when connect raises at once: a socket is created only by a
\* coroutine at the start of an attempt, which then either waits for that
\* socket to be writable or has closed it.
C20_RequestShapeAmended ==
    [][\A c \in Coros :
          /\ HandlesOf(c)' # HandlesOf(c) =>
                \E h \in HandlesOf(c)' \ HandlesOf(c) :
                    /\ tpc[c] = "attempt"
                    /\ HandlesOf(c)' = HandlesOf(c) \cup {h}
                    /\ \/ tpc'[c] = "conn" /\ HasEntry(waiting', h, c, "w")
                       \/ socks'[h] = 1 /\ Waits(c)' = 0
          /\ (Waits(c) = 0 /\ Waits(c)' = 1) =>
                \/ /\ tpc'[c] = "conn"
                   /\ sock'[c] \notin DOMAIN socks
                   /\ HasEntry(waiting', sock'[c], c, "w")
                \/ /\ tpc[c] = "send" /\ tpc'[c] = "sendw"
                   /\ HasEntry(waiting', sock[c], c, "w")
                \/ /\ tpc[c] \in {"send", "recv"} /\ tpc'[c] = "recvw"
                   /\ HasEntry(waiting', sock[c], c, "r")
          /\ tpc[c] \in {"send", "sendw"} =>
                tpc'[c] \in {"send", "sendw", "recvw", "done", "failed", "closed"}
          /\ tpc[c] \in {"recv", "recvw"} =>
                tpc'[c] \in {"recv", "recvw", "done", "failed", "closed"}
          /\ tpc'[c] = "recv" => tpc[c] \in {"recv", "recvw"}
          /\ (Connected(c) /\ Connected(c)') => sock'[c] = sock[c]
          /\ Finished(c) => (tpc'[c] = tpc[c] /\ Waits(c)' = 0)]_vars

\* A coroutine in the receive loop, waiting to read more after a first
\* chunk, on the socket of its second attempt.
C20_Witness ==
    \E c \in Coros :
        /\ tpc[c] = "recvw" /\ response[c] # <<>>
        /\ attempt[c] = 1
        /\ HasEntry(waiting, NewSock(c, 1), c, "r")

====
